---- MODULE Spec2Model ----
(***************************************************************************)
(* Gaussian-kernel speed profiles (src/src/helpers/speed_profile.py).      *)
(*                                                                         *)
(* Lengths are integers on a lattice.  Floating-point values are extended  *)
(* rationals <<n, d>>: d > 0 is the number n/d in lowest terms, <<1, 0>>   *)
(* is +inf, <<-1, 0>> is -inf and <<0, 0>> is NaN, so that 1/0, 0/0 and    *)
(* inf*0 come out as numpy computes them.  The exponential underflows to   *)
(* exactly zero below 2^-ExpRange; mantissa rounding is not represented.   *)
(***************************************************************************)
EXTENDS Integers, Sequences, FiniteSets, TLC

VARIABLES data, walkable_area, grid_size, fwhm, fill_value, speed_method,
          pc, data_grouped_by_frame, grid_cells, rows, cols,
          center_x, center_y, speed_profiles, err, ret

vars == <<data, walkable_area, grid_size, fwhm, fill_value, speed_method,
          pc, data_grouped_by_frame, grid_cells, rows, cols,
          center_x, center_y, speed_profiles, err, ret>>

inputs == <<data, walkable_area, grid_size, fwhm, fill_value, speed_method>>

(***************************************************************************)
(* Bounds of the model.                                                    *)
(***************************************************************************)
\* longest dataset (number of rows)
MaxRows == 3
\* the exponential is exactly zero below 2^-ExpRange (float64: about 1074)
ExpRange == 10

(***************************************************************************)
(* Extended rational arithmetic (numpy float64 without rounding).          *)
(***************************************************************************)
Abs(n) == IF n < 0 THEN -n ELSE n

Sgn(n) == IF n < 0 THEN -1 ELSE IF n > 0 THEN 1 ELSE 0

RECURSIVE GCD(_, _)
GCD(a, b) == IF b = 0 THEN a ELSE GCD(b, a % b)

\* lowest terms, positive denominator; n/0 is inf, -inf or NaN by n's sign
Norm(n, d) ==
    IF d = 0 THEN <<Sgn(n), 0>>
    ELSE LET g == GCD(Abs(n), Abs(d))
         IN  <<(Sgn(d) * n) \div g, Abs(d) \div g>>

NaN == <<0, 0>>
Zero == <<0, 1>>
Num(n) == <<n, 1>>
IsFinite(v) == v[2] # 0

\* inf + inf = inf, inf - inf = NaN, NaN + x = NaN
Add(a, b) ==
    IF a[2] # 0 /\ b[2] # 0 THEN Norm(a[1] * b[2] + b[1] * a[2], a[2] * b[2])
    ELSE IF a = NaN \/ b = NaN THEN NaN
    ELSE IF a[2] = 0 /\ b[2] = 0 THEN (IF a = b THEN a ELSE NaN)
    ELSE IF a[2] = 0 THEN a ELSE b
Mul(a, b) == Norm(a[1] * b[1], a[2] * b[2])
Div(a, b) == Norm(a[1] * b[2], a[2] * b[1])

RECURSIVE Pow2(_)
Pow2(n) == IF n = 0 THEN 1 ELSE 2 * Pow2(n - 1)

\* ceil(n / d) for d # 0
Ceil(n, d) == IF d < 0 THEN -((n) \div (-d)) ELSE -((-n) \div d)

\* np.sum of a sequence of values, left to right; the empty sum is 0
RECURSIVE SumSeq(_)
SumSeq(s) ==
    IF s = <<>> THEN Zero
    ELSE Add(SumSeq(SubSeq(s, 1, Len(s) - 1)), s[Len(s)])

(***************************************************************************)
(* _compute_gaussian_weights                                               *)
(***************************************************************************)
\* sigma = fwhm / (2*sqrt(2*ln 2)), in units of 1/(2*sqrt(2*ln 2))
Sigma(w) == Num(w)

\* 1 / (sigma * sqrt(2*pi)), in units of 2*sqrt(2*ln 2)/sqrt(2*pi):
\* +inf for fwhm = 0, negative for fwhm < 0
Prefactor(w) == Div(Num(1), Sigma(w))

\* exp(-(x**2) / (2 * sigma**2)) = 2^-(4*x^2/fwhm^2) for the squared distance
\* x2, in units of 2^-ExpRange.  fwhm = 0 divides by zero: -x^2/0 is -inf
\* (exp gives 0) for x # 0 and -0/0 = NaN for x = 0.
ExpTerm(x2, w) ==
    IF w = 0 THEN (IF x2 = 0 THEN NaN ELSE Zero)
    ELSE LET e == (4 * x2) \div (w * w)
         IN  IF e > ExpRange THEN Zero ELSE Num(Pow2(ExpRange - e))

_compute_gaussian_weights(x2, w) == Mul(Prefactor(w), ExpTerm(x2, w))

(***************************************************************************)
(* _compute_gaussian_weighted_speed_profile                                *)
(* frame_data is a sequence of rows [frame, x, y, speed].                  *)
(***************************************************************************)
\* distance**2 at [c][r][k]: the tensor has shape (len(center_x),
\* len(center_y), agents); sqrt followed by **2 is carried as the square
Distance2(cx, cy, frame_data, c, r, k) ==
    LET distance_x == cx[c] - frame_data[k].x
        distance_y == cy[r] - frame_data[k].y
    IN  distance_x * distance_x + distance_y * distance_y

Weights(cx, cy, frame_data, w, c, r) ==
    [k \in 1..Len(frame_data) |->
        _compute_gaussian_weights(Distance2(cx, cy, frame_data, c, r, k), w)]

\* the weights divided by their sum over the centre-x axis (axis=0)
NormalizedWeightsAxis0(cx, cy, frame_data, w, c, r) ==
    [k \in 1..Len(frame_data) |->
        Div(Weights(cx, cy, frame_data, w, c, r)[k],
            SumSeq([c2 \in 1..Len(cx) |->
                        Weights(cx, cy, frame_data, w, c2, r)[k]]))]

\* the weights divided by the weight of the frame's first agent
NormalizedWeightsByFirst(cx, cy, frame_data, w, c, r) ==
    LET weights == Weights(cx, cy, frame_data, w, c, r)
    IN  [k \in 1..Len(frame_data) |-> Div(weights[k], weights[1])]

\* weights / np.sum(weights, axis=2, keepdims=True) at cell [c][r]
NormalizedWeights(cx, cy, frame_data, w, c, r) ==
    LET weights == Weights(cx, cy, frame_data, w, c, r)
        total == SumSeq(weights)
    IN  [k \in 1..Len(frame_data) |-> Div(weights[k], total)]

\* the raw weights contracted with the speeds, without normalization
WeightedSpeedsUnnormalized(frame_data, cx, cy, w) ==
    [c \in 1..Len(cx) |-> [r \in 1..Len(cy) |->
        LET ws == Weights(cx, cy, frame_data, w, c, r)
        IN  SumSeq([k \in 1..Len(frame_data) |->
                        Mul(ws[k], Num(frame_data[k].speed))])]]

\* every agent's weight multiplied by the first row's speed
WeightedSpeedsFirstSpeed(frame_data, cx, cy, w) ==
    [c \in 1..Len(cx) |-> [r \in 1..Len(cy) |->
        LET nw == NormalizedWeights(cx, cy, frame_data, w, c, r)
        IN  SumSeq([k \in 1..Len(frame_data) |->
                        Mul(nw[k], Num(frame_data[1].speed))])]]

\* np.tensordot(normalized_weights, speeds, axes=([2], [0])): shape
\* (len(center_x), len(center_y)); a sum over no agents is 0
WeightedSpeeds(frame_data, cx, cy, w) ==
    [c \in 1..Len(cx) |-> [r \in 1..Len(cy) |->
        LET nw == NormalizedWeights(cx, cy, frame_data, w, c, r)
        IN  SumSeq([k \in 1..Len(frame_data) |->
                        Mul(nw[k], Num(frame_data[k].speed))])]]

\* m.T for m of shape (n1, n2)
Transpose(m, n1, n2) == [j \in 1..n2 |-> [i \in 1..n1 |-> m[i][j]]]

\* the weighted speeds returned as computed, without the transposition
WeightedSpeedsNotTransposed(frame_data, cx, cy, w) ==
    WeightedSpeeds(frame_data, cx, cy, w)

\* returns np.array(weighted_speeds.T): shape (len(center_y), len(center_x))
_compute_gaussian_weighted_speed_profile(frame_data, cx, cy, w) ==
    Transpose(WeightedSpeeds(frame_data, cx, cy, w), Len(cx), Len(cy))

(***************************************************************************)
(* get_grid_cells                                                          *)
(***************************************************************************)
\* len(np.arange(start, stop, step)) for step # 0
ArangeLen(start, stop, step) ==
    LET n == Ceil(stop - start, step) IN IF n < 0 THEN 0 ELSE n

\* np.arange(start, stop, step) for step # 0
Arange(start, stop, step) ==
    [i \in 1..ArangeLen(start, stop, step) |-> start + (i - 1) * step]

\* np.arange(min_x, max_x, grid_size): the stop without the extra step
XCoordsShort(b, g) == Arange(b[1], b[3], g)

\* bounds = (min_x, min_y, max_x, max_y)
XCoords(b, g) == Arange(b[1], b[3] + g, g)
YCoords(b, g) == Arange(b[4], b[2] - g, -g)

\* the cells appended with the loops exchanged (i outer, j inner)
GridCellsColumnMajor(b, g) ==
    LET xs == XCoords(b, g)
        ys == YCoords(b, g)
        nx == IF Len(xs) > 1 THEN Len(xs) - 1 ELSE 0
        ny == IF Len(ys) > 1 THEN Len(ys) - 1 ELSE 0
    IN  [n \in 1..(ny * nx) |->
            LET i == ((n - 1) \div ny) + 1
                j == ((n - 1) % ny) + 1
            IN  <<xs[i], ys[j], xs[i + 1], ys[j + 1]>>]

\* shapely.box(x_coords[i], y_coords[j], x_coords[i + 1], y_coords[j + 1]),
\* appended for j outer and i inner; range(len - 1) is empty for len <= 1
GridCells(b, g) ==
    LET xs == XCoords(b, g)
        ys == YCoords(b, g)
        nx == IF Len(xs) > 1 THEN Len(xs) - 1 ELSE 0
        ny == IF Len(ys) > 1 THEN Len(ys) - 1 ELSE 0
    IN  [n \in 1..(ny * nx) |->
            LET j == ((n - 1) \div nx) + 1
                i == ((n - 1) % nx) + 1
            IN  <<xs[i], ys[j], xs[i + 1], ys[j + 1]>>]

\* (grid cells, len(y_coords) - 1, len(x_coords) - 1)
get_grid_cells(b, g) ==
    <<GridCells(b, g), Len(YCoords(b, g)) - 1, Len(XCoords(b, g)) - 1>>

(***************************************************************************)
(* compute_speed_profile                                                   *)
(***************************************************************************)
\* shapely.centroid of a box: the midpoint of its corners
Centroid(cell) == <<(cell[1] + cell[3]) \div 2, (cell[2] + cell[4]) \div 2>>

\* shapely.get_x(grid_center[:cols])
CenterX(cells, nc) ==
    LET n == IF nc < Len(cells) THEN nc ELSE Len(cells)
    IN  [i \in 1..n |-> Centroid(cells[i])[1]]

\* shapely.get_y(grid_center[::cols]) for cols >= 1
CenterY(cells, nc) ==
    [i \in 1..Ceil(Len(cells), nc) |-> Centroid(cells[(i - 1) * nc + 1])[2]]

\* the set of frame ids of a dataset
FrameKeys(d) == {d[i].frame : i \in 1..Len(d)}

\* the rows of frame f, in dataset order
RECURSIVE FrameRows(_, _)
FrameRows(d, f) ==
    IF d = <<>> THEN <<>>
    ELSE IF d[1].frame = f THEN <<d[1]>> \o FrameRows(Tail(d), f)
    ELSE FrameRows(Tail(d), f)

\* a set of integers as an ascending sequence
RECURSIVE Ascending(_)
Ascending(S) ==
    IF S = {} THEN <<>>
    ELSE LET m == CHOOSE x \in S : \A y \in S : x <= y
         IN  <<m>> \o Ascending(S \ {m})

\* a set of integers in the order of first occurrence in the sequence ks
RECURSIVE FirstSeen(_, _)
FirstSeen(ks, seen) ==
    IF ks = <<>> THEN <<>>
    ELSE IF ks[1] \in seen THEN FirstSeen(Tail(ks), seen)
    ELSE <<ks[1]>> \o FirstSeen(Tail(ks), seen \cup {ks[1]})

FirstSeenKeys(d) == FirstSeen([i \in 1..Len(d) |-> d[i].frame], {})

\* groupby with sort=False: groups in order of first occurrence
GroupByUnsorted(d) ==
    LET keys == FirstSeenKeys(d)
    IN  [i \in 1..Len(keys) |-> <<keys[i], FrameRows(d, keys[i])>>]

\* the maximal runs of consecutive rows with the same frame id, as
\* itertools.groupby would give them
RECURSIVE Runs(_)
Runs(d) ==
    IF d = <<>> THEN <<>>
    ELSE LET rest == Runs(Tail(d))
         IN  IF rest # <<>> /\ rest[1][1] = d[1].frame
             THEN <<<<d[1].frame, <<d[1]>> \o rest[1][2]>>>> \o Tail(rest)
             ELSE <<<<d[1].frame, <<d[1]>>>>>> \o rest

\* grouping by runs of consecutive rows, keys ascending, runs kept apart
GroupByRuns(d) ==
    LET keys == Ascending(FrameKeys(d))
        runs == Runs(d)
        RECURSIVE Pick(_, _)
        Pick(k, i) ==
            IF i > Len(runs) THEN <<>>
            ELSE IF runs[i][1] = k THEN <<runs[i]>> \o Pick(k, i + 1)
            ELSE Pick(k, i + 1)
        RECURSIVE All(_)
        All(j) == IF j > Len(keys) THEN <<>> ELSE Pick(keys[j], 1) \o All(j + 1)
    IN  All(1)

\* grouping that hands every group the whole dataset (rows not filtered)
GroupByAllRows(d) ==
    LET keys == Ascending(FrameKeys(d))
    IN  [i \in 1..Len(keys) |-> <<keys[i], d>>]

\* data.groupby(FRAME_COL), iterated: pandas sorts the group keys
\* (sort=True is the default); each group keeps its rows in dataset order
GroupBy(d) ==
    LET keys == Ascending(FrameKeys(d))
    IN  [i \in 1..Len(keys) |-> <<keys[i], FrameRows(d, keys[i])>>]

\* the row-major elements of a matrix (sequence of rows)
RECURSIVE Flatten(_)
Flatten(m) == IF m = <<>> THEN <<>> ELSE m[1] \o Flatten(Tail(m))

\* a.reshape(nr, nc): the same elements in row-major order
Reshape(m, nr, nc) ==
    LET flat == Flatten(m)
    IN  [i \in 1..nr |-> [j \in 1..nc |-> flat[(i - 1) * nc + j]]]

(***************************************************************************)
(* Inputs.  One lattice unit is a quarter of the unit square's side, so    *)
(* <<0, 0, 4, 4>> with grid_size 2 is the unit square with grid_size 0.5.  *)
(* Grid sizes are even, which keeps every cell centre on the lattice.      *)
(***************************************************************************)
\* walkable_area.bounds = (min_x, min_y, max_x, max_y)
Areas == {<<0, 0, 4, 4>>, <<0, 0, 2, 2>>, <<1, 0, 4, 6>>,
          <<0, 0, 0, 4>>, <<0, 0, 4, 0>>, <<1, 1, 1, 1>>}
GridSizes == {-2, 0, 2, 4}
\* 4*x^2/fwhm^2 is an integer for these
Fwhms == {-1, 0, 1, 2}
FillValues == {NaN, Num(-1)}
SpeedMethods == {"GAUSSIAN", "ARITHMETIC"}
FrameIds == {1, 2}
\* (x, y, speed) of an observation
Agents == {<<0, 0, 1>>, <<2, 2, 2>>, <<3, 1, 1>>}

Row(f, a) == [frame |-> f, x |-> a[1], y |-> a[2], speed |-> a[3]]
RowsOf(F) == {Row(f, a) : f \in F, a \in Agents}

SeqsUpTo(S, n) == UNION {[1..m -> S] : m \in 0..n}

ValidGrid(b, g) == b[3] > b[1] /\ b[4] > b[2] /\ g > 0

(***************************************************************************)
(* compute_speed_profile as a state machine                                *)
(***************************************************************************)
\* longest dataset tried with the given arguments.  A call that fails before
\* the first frame never reads the rows; fill_value and speed_method are
\* read by no line of the code.  The longest datasets are tried on the unit
\* square's 2 x 2 grid with the default fill_value and speed_method, datasets
\* one row shorter with every other valid combination.
DataLen(b, g, fv, sm) ==
    IF ~ValidGrid(b, g) THEN 1
    ELSE IF b = <<0, 0, 4, 4>> /\ g = 2 /\ fv = NaN /\ sm = "GAUSSIAN"
         THEN MaxRows
    ELSE MaxRows - 1

\* the arguments of one call of compute_speed_profile
Init ==
    /\ walkable_area \in Areas
    /\ grid_size \in GridSizes
    /\ fwhm \in Fwhms
    /\ fill_value \in FillValues
    /\ speed_method \in SpeedMethods
    /\ data \in SeqsUpTo(RowsOf(FrameIds),
            DataLen(walkable_area, grid_size, fill_value, speed_method))
    /\ pc = "start"
    /\ data_grouped_by_frame = <<>>
    /\ grid_cells = <<>>
    /\ rows = 0
    /\ cols = 0
    /\ center_x = <<>>
    /\ center_y = <<>>
    /\ speed_profiles = <<>>
    /\ err = "none"
    /\ ret = <<>>

\* lines 119-120: speed_profiles = []; data.groupby(FRAME_COL)
GroupByFrame ==
    /\ pc = "start"
    /\ speed_profiles' = <<>>
    /\ data_grouped_by_frame' = GroupBy(data)
    /\ pc' = "grid"
    /\ UNCHANGED <<inputs, grid_cells, rows, cols, center_x, center_y, err, ret>>

\* line 121: get_grid_cells; np.arange raises ZeroDivisionError for step 0
BuildGrid ==
    /\ pc = "grid"
    /\ IF grid_size = 0
       THEN /\ pc' = "raised"
            /\ err' = "ZeroDivisionError"
            /\ UNCHANGED <<grid_cells, rows, cols>>
       ELSE /\ grid_cells' = get_grid_cells(walkable_area, grid_size)[1]
            /\ rows' = get_grid_cells(walkable_area, grid_size)[2]
            /\ cols' = get_grid_cells(walkable_area, grid_size)[3]
            /\ pc' = "centers"
            /\ err' = err
    /\ UNCHANGED <<inputs, data_grouped_by_frame, center_x, center_y,
                   speed_profiles, ret>>

\* lines 122-124: np.vectorize raises ValueError on a size-0 input
GridCenters ==
    /\ pc = "centers"
    /\ IF Len(grid_cells) = 0
       THEN /\ pc' = "raised"
            /\ err' = "ValueError"
            /\ UNCHANGED <<center_x, center_y>>
       ELSE /\ center_x' = CenterX(grid_cells, cols)
            /\ center_y' = CenterY(grid_cells, cols)
            /\ pc' = "loop"
            /\ err' = err
    /\ UNCHANGED <<inputs, data_grouped_by_frame, grid_cells, rows, cols,
                   speed_profiles, ret>>

\* one iteration in which the distances are subtracted in place, so that
\* center_x is left shifted by the frame's first agent
ComputeFrameInPlace ==
    /\ pc = "loop"
    /\ data_grouped_by_frame # <<>>
    /\ LET frame_data == data_grouped_by_frame[1][2]
           speed_profile ==
               _compute_gaussian_weighted_speed_profile(
                   frame_data, center_x, center_y, fwhm)
       IN  /\ speed_profiles' =
                  Append(speed_profiles, Reshape(speed_profile, rows, cols))
           /\ center_x' = [c \in 1..Len(center_x) |->
                               center_x[c] - frame_data[1].x]
    /\ data_grouped_by_frame' = Tail(data_grouped_by_frame)
    /\ UNCHANGED <<inputs, pc, err, grid_cells, rows, cols, center_y, ret>>

\* one iteration in which the test of the speed method is effective
ComputeFrameMethodTested ==
    /\ pc = "loop"
    /\ data_grouped_by_frame # <<>>
    /\ LET frame_data == data_grouped_by_frame[1][2]
       IN  IF speed_method = "GAUSSIAN"
           THEN LET speed_profile ==
                        _compute_gaussian_weighted_speed_profile(
                            frame_data, center_x, center_y, fwhm)
                IN  /\ speed_profiles' =
                           Append(speed_profiles,
                                  Reshape(speed_profile, rows, cols))
                    /\ data_grouped_by_frame' = Tail(data_grouped_by_frame)
                    /\ UNCHANGED <<pc, err>>
           ELSE /\ pc' = "raised"
                /\ err' = "ValueError"
                /\ UNCHANGED <<speed_profiles, data_grouped_by_frame>>
    /\ UNCHANGED <<inputs, grid_cells, rows, cols, center_x, center_y, ret>>

\* lines 125-136: one iteration of the loop over the groups
ComputeFrame ==
    /\ pc = "loop"
    /\ data_grouped_by_frame # <<>>
    /\ LET frame_data == data_grouped_by_frame[1][2]
       IN  IF TRUE \/ speed_method = "GAUSSIAN"
           THEN LET speed_profile ==
                        _compute_gaussian_weighted_speed_profile(
                            frame_data, center_x, center_y, fwhm)
                IN  /\ speed_profiles' =
                           Append(speed_profiles,
                                  Reshape(speed_profile, rows, cols))
                    /\ data_grouped_by_frame' = Tail(data_grouped_by_frame)
                    /\ UNCHANGED <<pc, err>>
           ELSE /\ pc' = "raised"
                /\ err' = "ValueError"
                /\ UNCHANGED <<speed_profiles, data_grouped_by_frame>>
    /\ UNCHANGED <<inputs, grid_cells, rows, cols, center_x, center_y, ret>>

\* line 138: return speed_profiles
Return ==
    /\ pc = "loop"
    /\ data_grouped_by_frame = <<>>
    /\ ret' = speed_profiles
    /\ pc' = "done"
    /\ UNCHANGED <<inputs, data_grouped_by_frame, grid_cells, rows, cols,
                   center_x, center_y, speed_profiles, err>>

Next == GroupByFrame \/ BuildGrid \/ GridCenters \/ ComputeFrame \/ Return

Spec == Init /\ [][Next]_vars

(***************************************************************************)
(* The kernel weighting engine alone: one call of                          *)
(* _compute_gaussian_weighted_speed_profile on the centres of a valid grid *)
(* and one frame of zero or more agents, reshaped as line 136 does.        *)
(***************************************************************************)
InitEngine ==
    /\ walkable_area \in Areas
    /\ grid_size \in GridSizes
    /\ ValidGrid(walkable_area, grid_size)
    /\ fwhm \in Fwhms
    /\ fill_value \in FillValues
    /\ speed_method = "GAUSSIAN"
    /\ data \in SeqsUpTo(RowsOf({1}), MaxRows)
    /\ pc = "engine"
    /\ data_grouped_by_frame = <<>>
    /\ grid_cells = get_grid_cells(walkable_area, grid_size)[1]
    /\ rows = get_grid_cells(walkable_area, grid_size)[2]
    /\ cols = get_grid_cells(walkable_area, grid_size)[3]
    /\ center_x = CenterX(grid_cells, cols)
    /\ center_y = CenterY(grid_cells, cols)
    /\ speed_profiles = <<>>
    /\ err = "none"
    /\ ret = <<>>

WeightFrame ==
    /\ pc = "engine"
    /\ speed_profiles' =
           <<Reshape(_compute_gaussian_weighted_speed_profile(
                         data, center_x, center_y, fwhm), rows, cols)>>
    /\ pc' = "engine_done"
    /\ UNCHANGED <<inputs, data_grouped_by_frame, grid_cells, rows, cols,
                   center_x, center_y, err, ret>>

NextEngine == WeightFrame

SpecEngine == InitEngine /\ [][NextEngine]_vars

(***************************************************************************)
(* Properties                                                              *)
(***************************************************************************)
\* the profile of the rows rws on the grid of the call
ProfileOf(rws) ==
    Reshape(_compute_gaussian_weighted_speed_profile(
                rws, center_x, center_y, fwhm), rows, cols)

AllCells(m, P(_)) == \A i \in 1..Len(m) : \A j \in 1..Len(m[i]) : P(m[i][j])

\* C2: for a frame with zero agents every cell of the engine's grid equals
\* the caller's fill_value, and no exception is raised.
C2_EmptyFrameFilled ==
    (pc = "engine_done" /\ Len(data) = 0 /\ fwhm > 0) =>
        /\ err = "none"
        /\ AllCells(speed_profiles[1], LAMBDA v : v = fill_value)

\* the raw weights of cell (r, c) of the current grid for the rows rws
CellWeights(rws, r, c) == Weights(center_x, center_y, rws, fwhm, c, r)

AllZero(ws) == \A k \in 1..Len(ws) : ws[k] = Zero

\* the rows of the k-th frame iterated
KthFrame(k) == FrameRows(data, Ascending(FrameKeys(data))[k])

\* every observation lies inside the walkable area's bounding box
AgentsInside ==
    \A i \in 1..Len(data) :
        /\ walkable_area[1] <= data[i].x /\ data[i].x <= walkable_area[3]
        /\ walkable_area[2] <= data[i].y /\ data[i].y <= walkable_area[4]

\* C3: in a frame with at least one agent, a cell whose raw weights are all
\* exactly zero gets fill_value, never the result of a division by zero.
C3_ZeroWeightCellFilled ==
    (pc = "done" /\ fwhm > 0 /\ AgentsInside) =>
        \A k \in 1..Len(ret) : \A r \in 1..rows : \A c \in 1..cols :
            AllZero(CellWeights(KthFrame(k), r, c)) =>
                ret[k][r][c] = fill_value

\* C4: a degenerate bounding box or a grid_size <= 0 makes the grid builder
\* signal InvalidGeometryError, which the driver propagates before any frame.
C4_InvalidGeometrySignalled ==
    (~ValidGrid(walkable_area, grid_size) /\ fwhm > 0) =>
        \/ pc \in {"start", "grid"}
        \/ pc = "raised" /\ err = "InvalidGeometryError" /\ speed_profiles = <<>>

\* C5: fwhm <= 0 is rejected with InvalidParameterError: no result grid is
\* ever produced and the call never returns normally.
C5_NonPositiveFwhmRejected ==
    (fwhm <= 0 /\ ValidGrid(walkable_area, grid_size) /\ data # <<>>) =>
        /\ speed_profiles = <<>>
        /\ pc # "done"
        /\ pc = "raised" => err = "InvalidParameterError"

\* the frames iterated so far
FramesDone == 1..Len(speed_profiles)

NonZeroWeight(ws) == \E k \in 1..Len(ws) : IsFinite(ws[k]) /\ ws[k] # Zero

\* C6: for every frame and every cell for which some agent has a nonzero raw
\* weight, the normalized weights of the cell over the frame's agents sum
\* to 1.
C6_NormalizedWeightsSumToOne ==
    pc = "done" =>
        \A k \in FramesDone : \A r \in 1..rows : \A c \in 1..cols :
            NonZeroWeight(CellWeights(KthFrame(k), r, c)) =>
                SumSeq(NormalizedWeights(center_x, center_y, KthFrame(k),
                                         fwhm, c, r)) = Num(1)

\* a frame of two agents with different nonzero weights at some cell has
\* been weighted
C6_Witness ==
    /\ pc = "done"
    /\ fwhm > 0
    /\ \E k \in FramesDone : \E r \in 1..rows : \E c \in 1..cols :
          LET ws == CellWeights(KthFrame(k), r, c)
          IN  /\ Len(ws) = 2
              /\ ws[1] # Zero
              /\ ws[2] # Zero
              /\ ws[1] # ws[2]

EndToEnd ==
    /\ data = <<Row(1, <<0, 0, 1>>), Row(2, <<2, 2, 2>>)>>
    /\ walkable_area = <<0, 0, 2, 2>>
    /\ grid_size = 2
    /\ fwhm = 2

Swapped(rws, i, j) ==
    [n \in 1..Len(rws) |-> IF n = i THEN rws[j] ELSE IF n = j THEN rws[i] ELSE rws[n]]

\* C8: exchanging two agents of a frame (two rows of the frame) leaves every
\* cell of the frame's output grid unchanged.
C8_AgentOrderIndependent ==
    pc = "done" =>
        \A k \in 1..Len(ret) :
            \A i \in 1..Len(KthFrame(k)) : \A j \in (i + 1)..Len(KthFrame(k)) :
                ProfileOf(Swapped(KthFrame(k), i, j)) = ret[k]

\* a frame of two agents at different places with different speeds has been
\* weighted and has a cell strictly between the two speeds
C8_Witness ==
    /\ pc = "done"
    /\ fwhm > 0
    /\ \E k \in 1..Len(ret) :
          /\ Len(KthFrame(k)) >= 2
          /\ KthFrame(k)[1].speed # KthFrame(k)[2].speed
          /\ \E r \in 1..rows : \E c \in 1..cols :
                /\ IsFinite(ret[k][r][c])
                /\ ret[k][r][c] # Num(KthFrame(k)[1].speed)
                /\ ret[k][r][c] # Num(KthFrame(k)[2].speed)

\* the grid has been built (lines 121-124 have run without raising)
GridBuilt == pc \in {"loop", "done"}

C10_RowMajorCenters ==
    (GridBuilt /\ ValidGrid(walkable_area, grid_size)) =>
        /\ Len(grid_cells) = rows * cols
        /\ Len(center_x) = cols
        /\ Len(center_y) = rows
        /\ \A r \in 1..rows : \A c \in 1..cols :
               Centroid(grid_cells[(r - 1) * cols + c])
                   = <<center_x[c], center_y[r]>>
        /\ \A c \in 1..(cols - 1) : center_x[c] < center_x[c + 1]
        /\ \A r \in 1..(rows - 1) : center_y[r] > center_y[r + 1]

\* a grid with more than one row, more than one column and rows # cols has
\* been built
C10_Witness ==
    /\ GridBuilt
    /\ rows > 1
    /\ cols > 1
    /\ rows # cols

\* the statements the call has still to execute: one per stage, one per
\* frame group left
StepsLeft ==
    CASE pc = "start" -> 4 + Cardinality(FrameKeys(data))
      [] pc = "grid" -> 3 + Len(data_grouped_by_frame)
      [] pc = "centers" -> 2 + Len(data_grouped_by_frame)
      [] pc = "loop" -> 1 + Len(data_grouped_by_frame)
      [] OTHER -> 0

\* the statement the call is at can execute (the loop body can whenever a
\* frame group is left: its only conditions are those tested here)
CanStep ==
    CASE pc = "start" -> ENABLED GroupByFrame
      [] pc = "grid" -> ENABLED BuildGrid
      [] pc = "centers" -> ENABLED GridCenters
      [] pc = "loop" -> data_grouped_by_frame # <<>> \/ ENABLED Return
      [] OTHER -> FALSE

\* C11: with a valid grid the call terminates after exhausting all frame
\* groups (it never raises, it can always take its next step, and every
\* step brings the return nearer) and returns the whole sequence at once:
\* one profile per distinct frame_id (none for an empty dataset), nothing
\* returned before the end.
C11_TerminatesWithAllFrames ==
    /\ [](pc # "done" => ret = <<>>)
    /\ [](pc = "done" =>
            /\ data_grouped_by_frame = <<>>
            /\ ret = speed_profiles
            /\ Len(ret) = Cardinality(FrameKeys(data))
            /\ (data = <<>> => ret = <<>>))
    /\ [](pc = "loop" =>
            Len(speed_profiles) + Len(data_grouped_by_frame)
                = Cardinality(FrameKeys(data)))
    /\ []((ValidGrid(walkable_area, grid_size) /\ pc # "done") => CanStep)
    /\ [][StepsLeft' < StepsLeft]_vars

\* a dataset whose rows of frame 1 are separated by a row of frame 2 has
\* been processed to the end
C11_Witness ==
    /\ pc = "done"
    /\ Len(data) = 3
    /\ data[1].frame = data[3].frame
    /\ data[1].frame # data[2].frame
    /\ Len(ret) = 2

\* the grid as the call holds it
grid == <<grid_cells, rows, cols, center_x, center_y>>

\* C12: the grid is built exactly once (lines 121-124 run once, in order,
\* and nothing else assigns the grid), it is complete before the first
\* frame is weighted, no frame computation changes it, and so every frame
\* of the run is weighted against the same grid.
C12_GridBuiltOnceBeforeFrames ==
    /\ [][pc' # "start" /\ (pc' = "grid" => pc = "start")
            /\ (pc' = "centers" => pc = "grid")]_vars
    /\ [][(<<grid_cells, rows, cols>>' # <<grid_cells, rows, cols>>
                => pc = "grid")
          /\ (<<center_x, center_y>>' # <<center_x, center_y>>
                => pc = "centers")]_vars
    /\ [][speed_profiles' # speed_profiles =>
              /\ grid' = grid
              /\ grid_cells = GridCells(walkable_area, grid_size)
              /\ center_x = CenterX(grid_cells, cols)
              /\ center_y = CenterY(grid_cells, cols)
              /\ Len(grid_cells) = rows * cols]_vars
    /\ [](pc \in {"loop", "done"} =>
            \A k \in FramesDone : speed_profiles[k] = ProfileOf(KthFrame(k)))

\* two frames have been weighted on a grid of several cells
C12_Witness ==
    /\ pc = "done"
    /\ Len(ret) = 2
    /\ Len(grid_cells) > 1
    /\ ret[1] # ret[2]

\* the profiles of a call with the same walkable_area, grid_size and fwhm
\* on the dataset d
RunOn(d) ==
    LET groups == GroupBy(d)
    IN  [i \in 1..Len(groups) |-> ProfileOf(groups[i][2])]

\* the profile of frame f among them
ProfileIn(d, f) ==
    LET groups == GroupBy(d)
        i == CHOOSE n \in 1..Len(groups) : groups[n][1] = f
    IN  ProfileOf(groups[i][2])

\* datasets that agree with the call's dataset on the rows of frame f: the
\* rows of f alone, the dataset preceded by a row of the new frame 0, and
\* the dataset followed by a row of another of its frame ids
SameFrameDatasets(f) ==
    {FrameRows(data, f)} \cup
    {<<Row(0, <<2, 2, 2>>)>> \o data} \cup
    {data \o <<Row(g, <<3, 1, 1>>)>> : g \in FrameIds \ {f}}

\* C13: the profile returned for a frame is the same in every call whose
\* dataset agrees on that frame's rows (and on walkable_area, grid_size,
\* fwhm), whatever the other frames are; a profile once appended is not
\* changed by the frames processed after it.
C13_FramesIndependent ==
    /\ [][\A k \in 1..Len(speed_profiles) :
              /\ Len(speed_profiles') >= k
              /\ speed_profiles'[k] = speed_profiles[k]]_vars
    /\ [](pc = "done" =>
            \A k \in 1..Len(ret) :
                LET f == Ascending(FrameKeys(data))[k]
                IN  \A d \in SameFrameDatasets(f) : ProfileIn(d, f) = ret[k])

\* a dataset of two frames with different profiles has been processed, the
\* second frame holding two agents
C13_Witness ==
    /\ pc = "done"
    /\ Len(ret) = 2
    /\ ret[1] # ret[2]
    /\ Len(KthFrame(2)) = 2
    /\ fwhm > 0

\* the weighted average speed of the agents rws seen from the single grid
\* center (x, y)
CellSpeed(rws, x, y) == WeightedSpeeds(rws, <<x>>, <<y>>, fwhm)[1][1]

\* C14: on every grid, square or not, each returned matrix has rows rows of
\* cols entries, and its entry in row i, column j is the weighted average
\* speed computed for the center (center_x[j], center_y[i]).
C14_CellsInPlace ==
    pc = "done" =>
        \A k \in 1..Len(ret) :
            /\ Len(ret[k]) = rows
            /\ \A i \in 1..rows :
                   /\ Len(ret[k][i]) = cols
                   /\ \A j \in 1..cols :
                          ret[k][i][j] =
                              CellSpeed(KthFrame(k), center_x[j], center_y[i])

\* a frame of two agents has been processed on a grid of 3 rows and 2
\* columns, and an entry differs from its neighbours in its row and column
C14_Witness ==
    /\ pc = "done"
    /\ rows = 3
    /\ cols = 2
    /\ Len(ret) = 1
    /\ Len(KthFrame(1)) = 2
    /\ AllCells(<<ret[1][2], ret[1][3]>>, IsFinite)
    /\ ret[1][2][1] # ret[1][2][2]
    /\ ret[1][2][1] # ret[1][3][1]

\* C15: whatever speed_method is, every iteration of the loop appends the
\* Gaussian-weighted profile of its frame and none raises, so that the
\* returned profiles are those determined by the other inputs alone.
C15_SpeedMethodIgnored ==
    /\ [][pc = "loop" => pc' \in {"loop", "done"} /\ err' = err]_vars
    /\ [][(pc = "loop" /\ data_grouped_by_frame # <<>>) =>
              speed_profiles' =
                  Append(speed_profiles,
                         ProfileOf(data_grouped_by_frame[1][2]))]_vars
    /\ [](pc = "done" => ret = RunOn(data))

\* a call with a speed method other than GAUSSIAN has returned two
\* different profiles
C15_Witness ==
    /\ pc = "done"
    /\ speed_method = "ARITHMETIC"
    /\ Len(ret) = 2
    /\ AllCells(ret[1], IsFinite)
    /\ ret[1] # ret[2]

\* a <= b for finite values
Leq(a, b) == a[1] * b[2] <= b[1] * a[2]

\* the speeds of the agents rws
Speeds(rws) == {rws[n].speed : n \in 1..Len(rws)}

\* C16: a cell whose weights have a finite nonzero sum holds a convex
\* combination of the frame's speeds: a finite value between the smallest
\* and the largest speed of the frame, hence non-negative when the speeds
\* are, and the speed s itself when every agent of the frame has speed s.
C16_ConvexCombination ==
    pc = "done" =>
        \A k \in 1..Len(ret) : \A r \in 1..rows : \A c \in 1..cols :
            LET rws == KthFrame(k)
                total == SumSeq(CellWeights(rws, r, c))
                v == ret[k][r][c]
            IN  (IsFinite(total) /\ total # Zero) =>
                    /\ IsFinite(v)
                    /\ \A s \in Speeds(rws) :
                           /\ (\A t \in Speeds(rws) : s <= t) => Leq(Num(s), v)
                           /\ (\A t \in Speeds(rws) : t <= s) => Leq(v, Num(s))
                           /\ Speeds(rws) = {s} => v = Num(s)
                    /\ (\A t \in Speeds(rws) : t >= 0) => Leq(Zero, v)

\* a frame of three agents with different speeds has been weighted and one
\* of its cells lies strictly between the smallest and the largest speed
C16_Witness ==
    /\ pc = "done"
    /\ fwhm > 0
    /\ \E k \in 1..Len(ret) : \E r \in 1..rows : \E c \in 1..cols :
          LET v == ret[k][r][c]
          IN  /\ Len(KthFrame(k)) = 3
              /\ Speeds(KthFrame(k)) = {1, 2}
              /\ IsFinite(v)
              /\ ~Leq(v, Num(1))
              /\ ~Leq(Num(2), v)

====
